---- MODULE Spec2Model ----
(***************************************************************************)
(* Ledger consistency engine of app.py: accounts, transactions and         *)
(* fixed-cost templates held in three JSON files, the handlers that mutate *)
(* them, and the monthly fixed-cost batch.                                 *)
(*                                                                         *)
(* Representation.                                                         *)
(*  - A Python str is a sequence of characters; a character is a one-      *)
(*    element TLA+ string, and the fixed prefix and separator of the batch *)
(*    memo are kept as one token each.  strip() removes leading and        *)
(*    trailing " ".                                                        *)
(*  - A date string "YYYY-MM-DD<tail>" is the record [y, m, d, tail]: the  *)
(*    three zero-padded numeric fields and whatever follows the tenth      *)
(*    character.  It need not name a calendar date.                        *)
(*  - An id "<prefix>_<12 hex digits>" is the number its hex digits spell, *)
(*    so that string order on ids of one prefix is numeric order.  uuid4   *)
(*    is taken to return an id that no record of the collection carries.   *)
(*  - A JSON object is a record; a legacy object may lack fields.          *)
(***************************************************************************)
EXTENDS Integers, Sequences, FiniteSets, TLC

\* ------------------------------------------------------------------ bounds
MaxAccounts == 2
MaxTx == 2
MaxTemplates == 2
MaxAbsBalance == 8
MaxSteps == 4

\* ----------------------------------------------------------------- strings
WS == " "
\* the literal that opens the memo of a generated transaction (line 207)
FixedPrefix == "fixed:"
MemoSep == " / "

RECURSIVE LStrip(_)
LStrip(s) == IF s # <<>> /\ Head(s) = WS THEN LStrip(Tail(s)) ELSE s

RECURSIVE RStrip(_)
RStrip(s) ==
  IF s # <<>> /\ s[Len(s)] = WS THEN RStrip(SubSeq(s, 1, Len(s) - 1)) ELSE s

\* str.strip()
Strip(s) == RStrip(LStrip(s))

\* dict.get(key, default)
Get(r, k, dflt) == IF k \in DOMAIN r THEN r[k] ELSE dflt

\* ------------------------------------------------------------------- dates
None == [none |-> TRUE]

IsLeap(y) == (y % 4 = 0 /\ y % 100 # 0) \/ y % 400 = 0

DaysIn(y, m) ==
  IF m = 2 THEN (IF IsLeap(y) THEN 29 ELSE 28)
  ELSE IF m \in {4, 6, 9, 11} THEN 30 ELSE 31

\* date.fromisoformat(str(s)[:10]): the tail is cut off, the rest must name a
\* calendar date; anything else raises and yields None
parse_date_safe(s) ==
  IF s.y \in 1..9999 /\ s.m \in 1..12 /\ s.d \in 1..DaysIn(s.y, s.m)
  THEN <<s.y, s.m, s.d>>
  ELSE None

DateMax == <<9999, 12, 31>>

\* str(d) of a date object, and f"{month_prefix}-{day:02d}"
DateStr(y, m, d) == [y |-> y, m |-> m, d |-> d, tail |-> ""]

DateLess(a, b) ==
  \/ a[1] < b[1]
  \/ a[1] = b[1] /\ a[2] < b[2]
  \/ a[1] = b[1] /\ a[2] = b[2] /\ a[3] < b[3]

\* ----------------------------------------------------------------- sorting
\* key(t) of sort_transactions_inplace: (d is None, d or date.max, str(id))
SortKey(t) ==
  LET d == parse_date_safe(Get(t, "date", DateStr(0, 0, 0)))
  IN  [isNone |-> d = None,
       date |-> IF d = None THEN DateMax ELSE d,
       id |-> Get(t, "id", 0)]

\* tuple comparison of two keys (False < True)
KeyLess(k1, k2) ==
  \/ ~k1.isNone /\ k2.isNone
  \/ k1.isNone = k2.isNone /\ DateLess(k1.date, k2.date)
  \/ k1.isNone = k2.isNone /\ k1.date = k2.date /\ k1.id < k2.id

\* insert t after every element whose key is not greater: keeps the sort stable
RECURSIVE InsertSorted(_, _)
InsertSorted(sorted, t) ==
  IF sorted = <<>> THEN <<t>>
  ELSE IF KeyLess(SortKey(t), SortKey(Head(sorted)))
       THEN <<t>> \o sorted
       ELSE <<Head(sorted)>> \o InsertSorted(Tail(sorted), t)

RECURSIVE SortFrom(_, _)
SortFrom(sorted, rest) ==
  IF rest = <<>> THEN sorted
  ELSE SortFrom(InsertSorted(sorted, Head(rest)), Tail(rest))

\* list.sort(key=key): a stable sort by key
sort_transactions_inplace(txs) == SortFrom(<<>>, txs)

\* --------------------------------------------------------------------- ids
AccountIds == 1..MaxAccounts
TxIds == 1..MaxTx
TemplateIds == 1..MaxTemplates

IdsOf(recs) == {recs[i].id : i \in {j \in DOMAIN recs : "id" \in DOMAIN recs[j]}}

\* new_id(prefix): the ids a call may return
new_id(pool, recs) == pool \ IdsOf(recs)

\* Ids of accounts and of templates are only ever compared for equality, so
\* which free id a call returns makes no difference there: the least is taken.
LeastOf(S) == CHOOSE x \in S : \A y \in S : x <= y

\* --------------------------------------------------------------- ensure_ids
\* the placeholder name of line 61
DefaultAccountName == <<"unnamed">>

EnsureAccount(a, id) ==
  [id |-> Get(a, "id", id),
   balance |-> Get(a, "balance", 0),
   name |-> Get(a, "name", DefaultAccountName)]

\* mutant: the memo of a transaction is set to "" whether it is there or not
EnsureTx_ClearsMemo(t, id, todayStr) ==
  [id |-> Get(t, "id", id),
   date |-> Get(t, "date", todayStr),
   account |-> Get(t, "account", <<>>),
   amount |-> Get(t, "amount", 0),
   memo |-> <<>>]

EnsureTx(t, id, todayStr) ==
  [id |-> Get(t, "id", id),
   date |-> Get(t, "date", todayStr),
   account |-> Get(t, "account", <<>>),
   amount |-> Get(t, "amount", 0),
   memo |-> Get(t, "memo", <<>>)]

\* name, account and amount of a template are not completed
EnsureFixed(fc, id) ==
  [k \in DOMAIN fc \cup {"id", "day", "memo"} |->
     IF k \in DOMAIN fc THEN fc[k]
     ELSE IF k = "id" THEN id ELSE IF k = "day" THEN 1 ELSE <<>>]

\* the three lists after ensure_ids, and the flag it returns; todayStrs[i] is
\* what str(date.today()) gives when line 70 runs for transaction i
ensure_ids(accs, txs, fcs, aid, tid, fid, todayStrs) ==
  LET accs2 == [i \in DOMAIN accs |-> EnsureAccount(accs[i], aid[i])]
      txs2 == [i \in DOMAIN txs |-> EnsureTx(txs[i], tid[i], todayStrs[i])]
      fcs2 == [i \in DOMAIN fcs |-> EnsureFixed(fcs[i], fid[i])]
  IN  [accounts |-> accs2, transactions |-> txs2, fixed_costs |-> fcs2,
       changed |->
         \/ \E i \in DOMAIN accs : DOMAIN accs[i] # DOMAIN accs2[i]
         \/ \E i \in DOMAIN txs : DOMAIN txs[i] # DOMAIN txs2[i]
         \/ \E i \in DOMAIN fcs : DOMAIN fcs[i] # DOMAIN fcs2[i]]

\* ------------------------------------------------------------------- state
VARIABLES
  pc,            \* "boot" before the files are read, "ready" afterwards
  today,         \* date.today() as <<y, m, d>>
  accounts,      \* the three lists in memory
  transactions,
  fixed_costs,
  fileAccounts,  \* accounts.json, transactions.json, fixed_costs.json
  fileTx,
  fileFixed,
  cutShort,      \* the files a raising save left cut short (not JSON)
  lastOp,        \* the handler that ran last, its inputs and what it reported
  opening,       \* history: account id -> balance the account entered with
  credited,      \* history: transaction id -> id of the account its amount
                 \*   was added to (0: none, or the account is gone)
  clash,         \* history: an account entered under a name that another
                 \*   account or a recorded transaction already used
  offForm,       \* history: a handler got an input its widget does not offer
  steps          \* history: how many times the script has run a handler

vars == <<pc, today, accounts, transactions, fixed_costs, fileAccounts, fileTx,
          fileFixed, cutShort, lastOp, opening, credited, clash, offForm,
          steps>>

\* ----------------------------------------------------------------- lookups
NamesOf(accs) == {accs[i].name : i \in DOMAIN accs}

\* for a in accounts: if a["name"] == name: ...; break
FirstByName(accs, name) ==
  IF \E i \in DOMAIN accs : accs[i].name = name
  THEN CHOOSE i \in DOMAIN accs :
         /\ accs[i].name = name
         /\ \A j \in DOMAIN accs : accs[j].name = name => i <= j
  ELSE 0

\* mutant: a name that is not a key falls back on the last account
acc_map_Fallback(accs, name) ==
  IF \E i \in DOMAIN accs : accs[i].name = name
  THEN CHOOSE i \in DOMAIN accs :
         /\ accs[i].name = name
         /\ \A j \in DOMAIN accs : accs[j].name = name => j <= i
  ELSE Len(accs)

\* acc_map = {a["name"]: a for a in accounts}: a later account replaces an
\* earlier one under the same key
acc_map(accs, name) ==
  IF \E i \in DOMAIN accs : accs[i].name = name
  THEN CHOOSE i \in DOMAIN accs :
         /\ accs[i].name = name
         /\ \A j \in DOMAIN accs : accs[j].name = name => j <= i
  ELSE 0

\* a["balance"] = int(a.get("balance", 0)) + delta on the account at index i
AddToBalance(accs, i, delta) ==
  IF i = 0 THEN accs
  ELSE [accs EXCEPT ![i].balance = accs[i].balance + delta]

RECURSIVE SumAmounts(_)
SumAmounts(txs) ==
  IF txs = <<>> THEN 0 ELSE Head(txs).amount + SumAmounts(Tail(txs))

\* mutant: the record with the id goes, and every record after it
WithoutId_AndAfter(recs, id) ==
  IF \E i \in DOMAIN recs : recs[i].id = id
  THEN SubSeq(recs, 1, (CHOOSE i \in DOMAIN recs : recs[i].id = id) - 1)
  ELSE recs

\* [x for x in recs if x.get("id") != id]
WithoutId(recs, id) ==
  LET Keep(x) == x.id # id IN SelectSeq(recs, Keep)

BalancesOk(accs) ==
  \A i \in DOMAIN accs : accs[i].balance \in -MaxAbsBalance..MaxAbsBalance

\* ------------------------------------------------------------------ inputs
\* the days on which the script runs (date.today()), in order
Clock == <<<<2024, 2, 27>>, <<2024, 2, 28>>>>

\* another run of days: the last days of months of 28, 29, 30 and 31 days,
\* and the first day of a month
MonthDays ==
  {<<2023, 2, 28>>, <<2024, 2, 29>>, <<2024, 4, 30>>, <<2024, 3, 31>>,
   <<2024, 3, 1>>}

\* the days the clock of a session shows: those of the run its day is of
ClockDays(now) ==
  IF now \in {Clock[i] : i \in DOMAIN Clock}
  THEN {Clock[i] : i \in DOMAIN Clock}
  ELSE MonthDays

\* what a call of date.today() may return once it has returned now: the
\* script reads the clock anew at every use, and the clock does not go back
NotBefore(now) == {c \in ClockDays(now) : ~DateLess(c, now)}

AccountNameInputs == {<<WS, "A">>, <<"B">>, <<WS>>}
OpeningInputs == {5}
\* account names a transaction or a template may be given
AccountRefInputs == {<<"A">>, <<"B">>}
TxDateInputs == {DateStr(2024, 2, 28)}
AmountInputs == {-2, 3}
MemoInputs == {<<FixedPrefix, "R", WS>>}
FcNameInputs == {<<"R", WS>>, <<WS>>}
FcAmountInputs == {-2}
FcMemoInputs == {<<>>}
DayInputs == {27, 28}

\* what the three files may hold when the script first runs: nothing, or
\* records written by hand or by an older version
AccountFiles ==
  <<
    <<>>,
    << [name |-> <<"A", WS>>, balance |-> 5] >>,
    << [id |-> 1, name |-> <<"B">>, balance |-> 3],
       [id |-> 2, name |-> <<"A", WS>>, balance |-> -2] >>,
    << [id |-> 1, name |-> <<"A">>, balance |-> 5] >>
  >>

TxFiles ==
  <<
    <<>>,
    << [id |-> 2, date |-> DateStr(2024, 2, 30), account |-> <<"A", WS>>,
        amount |-> 3, memo |-> <<>>],
       [id |-> 1, date |-> [DateStr(2024, 2, 28) EXCEPT !.tail = "T09"],
        account |-> <<"A", WS>>, amount |-> -2] >>,
    << [id |-> 2, date |-> DateStr(2024, 2, 28), account |-> <<"B">>,
        amount |-> 3, memo |-> <<>>],
       [id |-> 1, date |-> DateStr(2024, 2, 28), account |-> <<"A", WS>>,
        amount |-> -2, memo |-> <<>>] >>
  >>

FixedFiles ==
  <<
    <<>>,
    << [name |-> <<"R">>, account |-> <<"A", WS>>, amount |-> -2,
        memo |-> <<"m", WS>>] >>,
    << [id |-> 1, name |-> <<"R">>, account |-> <<"A">>, amount |-> -2,
        memo |-> <<>>, day |-> 28] >>
  >>

\* which files are found together: a fresh install, two older ones, and one
\* left by this version
Installs == {<<1, 1, 1>>, <<2, 2, 2>>, <<3, 3, 1>>, <<4, 1, 3>>}

\* ------------------------------------------------------------------- ghosts
TxOfName(txs, name) ==
  LET Test(t) == t.account = name IN SelectSeq(txs, Test)

\* the balance an account of the files entered with: what it holds less the
\* amounts the file's transactions give its name
OpeningAtLoad(accs, txs) ==
  [id \in IdsOf(accs) |->
     LET i == CHOOSE j \in DOMAIN accs : accs[j].id = id
     IN  accs[i].balance - SumAmounts(TxOfName(txs, accs[i].name))]

DistinctNames(accs) ==
  \A i, j \in DOMAIN accs : i # j => accs[i].name # accs[j].name

Restrict(f, S) == [x \in S |-> f[x]]

\* -------------------------------------------------------------------- load
\* one more run of the script
Step == steps < MaxSteps /\ steps' = steps + 1

Init ==
  /\ pc = "boot"
  /\ today \in {Clock[i] : i \in DOMAIN Clock}
  /\ accounts = <<>>
  /\ transactions = <<>>
  /\ fixed_costs = <<>>
  /\ \E f \in Installs :
       /\ fileAccounts = AccountFiles[f[1]]
       /\ fileTx = TxFiles[f[2]]
       /\ fileFixed = FixedFiles[f[3]]
  /\ lastOp = [op |-> "none", ok |-> FALSE]
  /\ opening = <<>>
  /\ credited = <<>>
  /\ clash = FALSE
  /\ offForm = FALSE
  /\ cutShort = {}
  /\ steps = 0

\* the transactions for which line 70 reads the clock
Dateless(txs) == {i \in DOMAIN txs : "date" \notin DOMAIN txs[i]}

\* what the clock gives at line 70, one read for each such transaction, in
\* the order of the list
ClockReads(now, txs) ==
  {f \in [Dateless(txs) -> NotBefore(now)] :
     \A i, j \in Dateless(txs) : i < j => ~DateLess(f[j], f[i])}

\* the day the clock showed when it was last read
LastRead(now, f) ==
  IF DOMAIN f = {} THEN now
  ELSE f[CHOOSE i \in DOMAIN f : \A j \in DOMAIN f : j <= i]

\* ids for the records of a list that have none
IdFill(pool, recs) ==
  LET need == {i \in DOMAIN recs : "id" \notin DOMAIN recs[i]}
  IN  {f \in [need -> new_id(pool, recs)] :
         \A i, j \in need : i # j => f[i] # f[j]}

At(f, i) == IF i \in DOMAIN f THEN f[i] ELSE 0

\* str(date.today()) as read for transaction i; no read where a date is there
ReadStr(reads, i) ==
  IF i \in DOMAIN reads
  THEN DateStr(reads[i][1], reads[i][2], reads[i][3])
  ELSE DateStr(0, 0, 0)

\* lines 17-23: the list in a file; a file that does not parse gives the
\* default, which is [] at lines 98-100
load_json(name, file) == IF name \in cutShort THEN <<>> ELSE file

\* lines 98-100
LoadedAccounts == load_json("accounts", fileAccounts)
LoadedTx == load_json("transactions", fileTx)
LoadedFixed == load_json("fixed_costs", fileFixed)

\* lines 98-109: read the files, complete them, save if completed, sort
Load ==
  /\ pc = "boot"
  /\ Step
  /\ \E aid \in IdFill(AccountIds, LoadedAccounts),
        tid \in IdFill(TxIds, LoadedTx),
        fid \in IdFill(TemplateIds, LoadedFixed),
        reads \in ClockReads(today, LoadedTx) :
       LET r == ensure_ids(LoadedAccounts, LoadedTx, LoadedFixed,
                           [i \in DOMAIN LoadedAccounts |-> At(aid, i)],
                           [i \in DOMAIN LoadedTx |-> At(tid, i)],
                           [i \in DOMAIN LoadedFixed |-> At(fid, i)],
                           [i \in DOMAIN LoadedTx |-> ReadStr(reads, i)])
       IN  /\ today' = LastRead(today, reads)
           /\ accounts' = r.accounts
           /\ fixed_costs' = r.fixed_costs
           /\ transactions' = sort_transactions_inplace(r.transactions)
           /\ fileAccounts' = IF r.changed THEN r.accounts ELSE fileAccounts
           /\ fileTx' = IF r.changed THEN r.transactions ELSE fileTx
           /\ fileFixed' = IF r.changed THEN r.fixed_costs ELSE fileFixed
           /\ cutShort' = IF r.changed THEN {} ELSE cutShort
           /\ lastOp' = [op |-> "load", ok |-> r.changed]
           /\ opening' = OpeningAtLoad(r.accounts, r.transactions)
           /\ credited' = [id \in IdsOf(r.transactions) |-> 0]
           /\ clash' = ~DistinctNames(r.accounts)
  /\ pc' = "ready"
  /\ UNCHANGED offForm

\* the clock moves on between two runs of the script
Tick ==
  /\ pc = "ready"
  /\ Step
  /\ today' \in NotBefore(today) \ {today}
  /\ UNCHANGED <<pc, accounts, transactions, fixed_costs, fileAccounts, fileTx,
                 fileFixed, lastOp, opening, credited, clash, offForm,
                 cutShort>>

\* ---------------------------------------------------------------- accounts
\* name.strip() == "" (lines 136 and 297)
NameMissing(name) == Strip(name) = <<>>

\* lines 296-307
AddAccount ==
  /\ pc = "ready"
  /\ Step
  /\ \E name \in AccountNameInputs, balance \in OpeningInputs :
       IF NameMissing(name)
       THEN /\ lastOp' = [op |-> "add_account", ok |-> FALSE]
            /\ UNCHANGED <<accounts, fileAccounts, cutShort, opening, clash>>
       ELSE /\ Len(accounts) < MaxAccounts
            /\ \E id \in {LeastOf(new_id(AccountIds, accounts))} :
                 /\ accounts' = Append(accounts,
                      [id |-> id, name |-> Strip(name), balance |-> balance])
                 /\ opening' = [x \in DOMAIN opening \cup {id} |->
                                  IF x = id THEN balance ELSE opening[x]]
            /\ fileAccounts' = accounts'
            /\ cutShort' = cutShort \ {"accounts"}
            /\ clash' = (\/ clash
                         \/ Strip(name) \in NamesOf(accounts)
                         \/ \E i \in DOMAIN transactions :
                              transactions[i].account = Strip(name))
            /\ lastOp' = [op |-> "add_account", ok |-> TRUE]
  /\ UNCHANGED <<pc, today, transactions, fixed_costs, fileTx, fileFixed,
                 credited, offForm>>

\* lines 279-289: one button for each account of the list, so the id is that
\* of an account of the list
DeleteAccount ==
  /\ pc = "ready"
  /\ Step
  /\ \E id \in IdsOf(accounts) :
       /\ accounts' = WithoutId(accounts, id)
       /\ fileAccounts' = accounts'
       /\ cutShort' = cutShort \ {"accounts"}
       /\ opening' = Restrict(opening, DOMAIN opening \ {id})
       /\ credited' = [t \in DOMAIN credited |->
                         IF credited[t] = id THEN 0 ELSE credited[t]]
       /\ lastOp' = [op |-> "delete_account", ok |-> TRUE]
  /\ UNCHANGED <<pc, today, transactions, fixed_costs, fileTx, fileFixed, clash,
                 offForm>>

\* ------------------------------------------------------------ transactions
\* mutant: the transaction is recorded but no balance moves
add_tx_NoCredit(accs, txs, id, d, acc_name, amount, memo) ==
  [accounts |-> accs,
   transactions |-> sort_transactions_inplace(Append(txs,
      [id |-> id, date |-> d, account |-> acc_name, amount |-> amount,
       memo |-> Strip(memo)]))]

\* lines 324-346: the account list and the transaction list after the handler
add_tx(accs, txs, id, d, acc_name, amount, memo) ==
  [accounts |-> AddToBalance(accs, FirstByName(accs, acc_name), amount),
   transactions |-> sort_transactions_inplace(Append(txs,
      [id |-> id, date |-> d, account |-> acc_name, amount |-> amount,
       memo |-> Strip(memo)]))]

\* lines 315-346: without accounts the form is not shown, and nothing runs
AddTx ==
  /\ pc = "ready"
  /\ Step
  /\ Len(accounts) > 0
  /\ Len(transactions) < MaxTx
  /\ \E d \in TxDateInputs, acc_name \in AccountRefInputs,
        amount \in AmountInputs, memo \in MemoInputs,
        id \in new_id(TxIds, transactions) :
       LET r == add_tx(accounts, transactions, id, d, acc_name, amount, memo)
           i == FirstByName(accounts, acc_name)
       IN  /\ BalancesOk(r.accounts)
           /\ accounts' = r.accounts
           /\ transactions' = r.transactions
           /\ fileAccounts' = r.accounts
           /\ fileTx' = r.transactions
           /\ cutShort' = cutShort \ {"accounts", "transactions"}
           /\ credited' = [t \in DOMAIN credited \cup {id} |->
                             IF t # id THEN credited[t]
                             ELSE IF i = 0 THEN 0 ELSE accounts[i].id]
           /\ offForm' = (offForm \/ acc_name \notin NamesOf(accounts))
           /\ lastOp' = [op |-> "add_tx", ok |-> i # 0]
  /\ UNCHANGED <<pc, today, fixed_costs, fileFixed, opening, clash>>

\* lines 370-382: the first transaction with the id, 0 when there is none
FindTx(txs, tx_id) ==
  IF \E i \in DOMAIN txs : txs[i].id = tx_id
  THEN CHOOSE i \in DOMAIN txs :
         txs[i].id = tx_id /\ \A j \in DOMAIN txs : txs[j].id = tx_id => i <= j
  ELSE 0

\* mutant: the transaction is removed but its amount is not taken back
delete_tx_NoReverse(accs, txs, k) ==
  [accounts |-> accs,
   transactions |-> sort_transactions_inplace(WithoutId(txs, txs[k].id))]

\* lines 377-386, target found at index k
delete_tx(accs, txs, k) ==
  [accounts |-> AddToBalance(accs, FirstByName(accs, txs[k].account),
                             0 - txs[k].amount),
   transactions |-> sort_transactions_inplace(WithoutId(txs, txs[k].id))]

DeleteTx ==
  /\ pc = "ready"
  /\ Step
  /\ \E tx_id \in TxIds :
       LET k == FindTx(transactions, tx_id)
       IN  IF k = 0
           THEN /\ UNCHANGED <<accounts, transactions, fileAccounts, fileTx,
                               cutShort, credited>>
                /\ offForm' = TRUE
                /\ lastOp' = [op |-> "delete_tx", ok |-> FALSE]
           ELSE LET r == delete_tx(accounts, transactions, k)
                IN  /\ BalancesOk(r.accounts)
                    /\ accounts' = r.accounts
                    /\ transactions' = r.transactions
                    /\ fileAccounts' = r.accounts
                    /\ fileTx' = r.transactions
                    /\ cutShort' = cutShort \ {"accounts", "transactions"}
                    /\ credited' = Restrict(credited, DOMAIN credited \ {tx_id})
                    /\ offForm' = offForm
                    /\ lastOp' = [op |-> "delete_tx", ok |-> TRUE]
  /\ UNCHANGED <<pc, today, fixed_costs, fileFixed, opening, clash>>

\* --------------------------------------------------------------- templates
\* lines 125-149: without accounts the form is not shown and the script only
\* says so; with accounts, a name that strips to nothing is refused
AddFixed ==
  /\ pc = "ready"
  /\ Step
  /\ \E fc_name \in FcNameInputs, fc_account \in AccountRefInputs,
        fc_amount \in FcAmountInputs, fc_memo \in FcMemoInputs,
        fc_day \in DayInputs :
       IF Len(accounts) = 0 \/ NameMissing(fc_name)
       THEN /\ lastOp' = [op |-> "add_fixed", ok |-> FALSE,
                         name |-> fc_name, account |-> fc_account]
            /\ UNCHANGED <<fixed_costs, fileFixed, cutShort, offForm>>
       ELSE /\ Len(fixed_costs) < MaxTemplates
            /\ \E id \in {LeastOf(new_id(TemplateIds, fixed_costs))} :
                 fixed_costs' = Append(fixed_costs,
                   [id |-> id, name |-> Strip(fc_name), account |-> fc_account,
                    amount |-> fc_amount, memo |-> Strip(fc_memo),
                    day |-> fc_day])
            /\ fileFixed' = fixed_costs'
            /\ cutShort' = cutShort \ {"fixed_costs"}
            /\ offForm' = (offForm \/ fc_account \notin NamesOf(accounts))
            /\ lastOp' = [op |-> "add_fixed", ok |-> TRUE,
                         name |-> fc_name, account |-> fc_account]
  /\ UNCHANGED <<pc, today, accounts, transactions, fileAccounts, fileTx,
                 opening, credited, clash>>

\* lines 158-173: one button for each template of the list, so the id is
\* that of a template of the list
DeleteFixed ==
  /\ pc = "ready"
  /\ Step
  /\ \E id \in IdsOf(fixed_costs) :
       /\ fixed_costs' = WithoutId(fixed_costs, id)
       /\ fileFixed' = fixed_costs'
       /\ cutShort' = cutShort \ {"fixed_costs"}
       /\ lastOp' = [op |-> "delete_fixed", ok |-> TRUE]
  /\ UNCHANGED <<pc, today, accounts, transactions, fileAccounts, fileTx,
                 opening, credited, clash, offForm>>

\* ------------------------------------------------------------------- batch
\* lines 204-209: tx_memo
TxMemo(fc) ==
  LET name == Strip(Get(fc, "name", <<>>))
      memo2 == Strip(Get(fc, "memo", <<>>))
  IN  <<FixedPrefix>> \o name \o
        (IF memo2 # <<>> THEN <<MemoSep>> \o memo2 ELSE <<>>)

\* lines 194-209: what a template generates in the month <<y, m>>
Generated(fc, y, m) ==
  [date |-> DateStr(y, m, Get(fc, "day", 1)),
   account |-> Strip(Get(fc, "account", <<>>)),
   amount |-> Get(fc, "amount", 0),
   memo |-> TxMemo(fc)]

\* lines 214-219
SameTx(t, g) ==
  /\ Get(t, "date", <<>>) = g.date
  /\ Strip(Get(t, "account", <<>>)) = g.account
  /\ Get(t, "amount", 0) = g.amount
  /\ Strip(Get(t, "memo", <<>>)) = g.memo

\* mutant: the scan stops one transaction short of the end of the list
IsDup_SkipsLast(txs, g) ==
  \E i \in DOMAIN txs : i < Len(txs) /\ SameTx(txs[i], g)

\* lines 212-221
IsDup(txs, g) == \E i \in DOMAIN txs : SameTx(txs[i], g)

\* line 197
NotYetDue(today_day, day) == today_day < day

\* mutant: the account is looked up before the duplicate check
BatchOne_AccountFirst(st, fc, ids, now) ==
  LET g == Generated(fc, now[1], now[2])
      k == acc_map(st.accounts, g.account)
  IN  IF NotYetDue(now[3], Get(fc, "day", 1))
      THEN [st EXCEPT !.skipped_future = @ + 1,
                      !.cls = Append(@, "skipped_future")]
      ELSE IF k = 0
      THEN [st EXCEPT !.skipped_no_account = @ + 1,
                      !.cls = Append(@, "skipped_no_account")]
      ELSE IF IsDup(st.transactions, g)
      THEN [st EXCEPT !.skipped_dup = @ + 1,
                      !.cls = Append(@, "skipped_dup")]
      ELSE IF st.added >= Len(ids)
      THEN [st EXCEPT !.full = TRUE]
      ELSE LET id == ids[st.added + 1]
           IN  [st EXCEPT
                  !.transactions = Append(@,
                     [id |-> id, date |-> g.date, account |-> g.account,
                      amount |-> g.amount, memo |-> g.memo]),
                  !.accounts = AddToBalance(@, k, g.amount),
                  !.added = @ + 1,
                  !.cls = Append(@, "added"),
                  !.credits = @ \cup {<<id, st.accounts[k].id>>}]

\* lines 193-242: one template; ids are the ids new_id will return, in order
BatchOne(st, fc, ids, now) ==
  LET g == Generated(fc, now[1], now[2])
      k == acc_map(st.accounts, g.account)
  IN  IF NotYetDue(now[3], Get(fc, "day", 1))
      THEN [st EXCEPT !.skipped_future = @ + 1,
                      !.cls = Append(@, "skipped_future")]
      ELSE IF IsDup(st.transactions, g)
      THEN [st EXCEPT !.skipped_dup = @ + 1,
                      !.cls = Append(@, "skipped_dup")]
      ELSE IF k = 0
      THEN [st EXCEPT !.skipped_no_account = @ + 1,
                      !.cls = Append(@, "skipped_no_account")]
      ELSE IF st.added >= Len(ids)
      THEN [st EXCEPT !.full = TRUE]
      ELSE LET id == ids[st.added + 1]
           IN  [st EXCEPT
                  !.transactions = Append(@,
                     [id |-> id, date |-> g.date, account |-> g.account,
                      amount |-> g.amount, memo |-> g.memo]),
                  !.accounts = AddToBalance(@, k, g.amount),
                  !.added = @ + 1,
                  !.cls = Append(@, "added"),
                  !.credits = @ \cup {<<id, st.accounts[k].id>>}]

RECURSIVE BatchLoop(_, _, _, _)
BatchLoop(st, fcs, ids, now) ==
  IF fcs = <<>> THEN st
  ELSE BatchLoop(BatchOne(st, Head(fcs), ids, now), Tail(fcs), ids, now)

\* lines 182-247: the lists and the four counters after the loop and the sort
run_batch(accs, txs, fcs, ids, now) ==
  LET st == BatchLoop(
              [accounts |-> accs, transactions |-> txs, added |-> 0,
               skipped_future |-> 0, skipped_dup |-> 0,
               skipped_no_account |-> 0, cls |-> <<>>, credits |-> {},
               full |-> FALSE],
              fcs, ids, now)
  IN  [st EXCEPT !.transactions = sort_transactions_inplace(@)]

\* month_prefix of line 182 and today_day of line 183 as <<y, m, d>>: the
\* year and month of the first read, the day of the second
BatchNow(at182, at183) == <<at182[1], at182[2], at183[3]>>

\* the orders in which new_id may hand out the ids that are free
IdOrders(pool, recs) ==
  LET free == new_id(pool, recs)
  IN  {f \in [1..Cardinality(free) -> free] :
         \A i, j \in 1..Cardinality(free) : i # j => f[i] # f[j]}

\* lines 178-252: without templates the button is not shown, and nothing
\* runs.  The clock is read at line 182 for the month and again at line 183
\* for the day.
Batch ==
  /\ pc = "ready"
  /\ Step
  /\ Len(fixed_costs) > 0
  /\ \E ids \in IdOrders(TxIds, transactions), at183 \in NotBefore(today) :
       LET now == BatchNow(today, at183)
           r == run_batch(accounts, transactions, fixed_costs, ids, now)
       IN  /\ ~r.full
           /\ today' = at183
           /\ BalancesOk(r.accounts)
           /\ accounts' = r.accounts
           /\ transactions' = r.transactions
           /\ fileTx' = r.transactions
           /\ fileAccounts' = r.accounts
           /\ cutShort' = cutShort \ {"accounts", "transactions"}
           /\ credited' = [t \in DOMAIN credited \cup {c[1] : c \in r.credits} |->
                             IF t \in DOMAIN credited THEN credited[t]
                             ELSE (CHOOSE c \in r.credits : c[1] = t)[2]]
           /\ lastOp' = [op |-> "batch", ok |-> r.added > 0, date |-> now,
                         again |-> /\ lastOp.op = "batch"
                                   /\ lastOp.date = today /\ at183 = today,
                         cls |-> r.cls, added |-> r.added,
                         skipped_future |-> r.skipped_future,
                         skipped_dup |-> r.skipped_dup,
                         skipped_no_account |-> r.skipped_no_account]
  /\ UNCHANGED <<pc, fixed_costs, fileFixed, opening, clash, offForm>>

\* ----------------------------------------------------------- specification
Next ==
  \/ Load
  \/ Tick
  \/ AddAccount
  \/ DeleteAccount
  \/ AddTx
  \/ DeleteTx
  \/ AddFixed
  \/ DeleteFixed
  \/ Batch

Spec == Init /\ [][Next]_vars

TypeOK ==
  /\ pc \in {"boot", "ready"}
  /\ cutShort \subseteq {"accounts", "transactions", "fixed_costs"}
  /\ Len(accounts) <= MaxAccounts
  /\ Len(transactions) <= MaxTx
  /\ Len(fixed_costs) <= MaxTemplates

\* ----------------------------------------- ledgers that start without files
\* account lists with pairwise distinct names
DistinctLedgers ==
  <<
    << [id |-> 1, name |-> <<"A">>, balance |-> 5] >>,
    << [id |-> 1, name |-> <<"A">>, balance |-> 5],
       [id |-> 2, name |-> <<"B">>, balance |-> 0] >>,
    << [id |-> 1, name |-> <<"B">>, balance |-> -2],
       [id |-> 2, name |-> <<"A">>, balance |-> 5] >>
  >>

\* the same, and one list with a name held twice
AnyLedgers ==
  DistinctLedgers \o
  << << [id |-> 1, name |-> <<"A">>, balance |-> 5],
        [id |-> 2, name |-> <<"A">>, balance |-> 0] >> >>

TemplateLists ==
  <<
    << [id |-> 1, name |-> <<"R">>, account |-> <<"A">>, amount |-> -2,
        memo |-> <<>>, day |-> 28] >>,
    << [id |-> 1, name |-> <<"R">>, account |-> <<"A">>, amount |-> -2,
        memo |-> <<>>, day |-> 28],
       [id |-> 2, name |-> <<"R">>, account |-> <<"A">>, amount |-> -2,
        memo |-> <<>>, day |-> 28] >>,
    << [id |-> 1, name |-> <<"R">>, account |-> <<"A", WS>>, amount |-> -2,
        memo |-> <<"m">>, day |-> 27],
       [id |-> 2, name |-> <<"S">>, account |-> <<"B">>, amount |-> 3,
        memo |-> <<>>, day |-> 28] >>
  >>

\* what is on record when the batch first runs: nothing, or one transaction
\* entered by hand that reads like the one the first template list generates
TxLists ==
  <<
    <<>>,
    << [id |-> 1, date |-> DateStr(2024, 2, 28), account |-> <<"A", WS>>,
        amount |-> -2, memo |-> <<FixedPrefix, "R">>] >>
  >>

\* a session that starts on the given lists, which are also what the files hold
StartOn(accs, txs, fcs) ==
  /\ pc = "ready"
  /\ today \in {Clock[i] : i \in DOMAIN Clock}
  /\ accounts = accs
  /\ transactions = txs
  /\ fixed_costs = fcs
  /\ fileAccounts = accs
  /\ fileTx = txs
  /\ fileFixed = fcs
  /\ lastOp = [op |-> "none", ok |-> FALSE]
  /\ opening = OpeningAtLoad(accs, txs)
  /\ credited = [id \in IdsOf(txs) |-> 0]
  /\ clash = ~DistinctNames(accs)
  /\ offForm = FALSE
  /\ cutShort = {}
  /\ steps = 0

\* transactions are added and deleted on a fixed list of accounts
InitTx == \E i \in DOMAIN DistinctLedgers : StartOn(DistinctLedgers[i], <<>>, <<>>)

NextTx ==
  \/ AddTx
  \/ DeleteTx

SpecTx == InitTx /\ [][NextTx]_vars

\* an account list read from an older file, with blanks around a name
BlankLedger == << [id |-> 1, name |-> <<"A", WS>>, balance |-> 5] >>

\* the batch runs on fixed accounts and templates as the days pass
InitBatch ==
  \E accs \in {AnyLedgers[i] : i \in DOMAIN AnyLedgers} \cup {BlankLedger},
     j \in DOMAIN TemplateLists, k \in DOMAIN TxLists :
    StartOn(accs, TxLists[k], TemplateLists[j])

NextBatch ==
  \/ Batch
  \/ Tick

SpecBatch == InitBatch /\ [][NextBatch]_vars

\* ------------------------------------------------------------------ claims
\* what an account's name refers to: opening balance plus the amounts of the
\* recorded transactions that carry the name
ByName(a) == opening[a.id] + SumAmounts(TxOfName(transactions, a.name))

\* C1: from accounts with pairwise distinct names and no transactions, after
\* any sequence of add_transaction and delete_transaction every account's
\* balance is its opening balance plus the amounts of the recorded
\* transactions whose account field is its name.
C1_BalanceByName ==
  \A i \in DOMAIN accounts : accounts[i].balance = ByName(accounts[i])

\* C1 witness: a delete has just taken an amount back, and an account still
\* differs from its opening balance because of a transaction that is left
C1_Witness ==
  /\ lastOp.op = "delete_tx" /\ lastOp.ok
  /\ \E i \in DOMAIN accounts :
       /\ accounts[i].balance # opening[accounts[i].id]
       /\ TxOfName(transactions, accounts[i].name) # <<>>

\* C2 as claimed, on runs where every input is one the forms offer: after any
\* mutation every account's balance is its balance at creation plus the
\* amounts of the recorded transactions that carry its name.
C2_AlwaysByName ==
  (pc = "ready" /\ ~offForm) =>
    \A i \in DOMAIN accounts : accounts[i].balance = ByName(accounts[i])

\* C2 amended: the same, as long as no account has entered under a name that
\* another account or a recorded transaction already used.
C2_ByNameUnlessClash ==
  (pc = "ready" /\ ~clash) =>
    \A i \in DOMAIN accounts : accounts[i].balance = ByName(accounts[i])

\* C2 witness: the batch has just generated into one of two accounts that
\* never clashed
C2_Witness ==
  /\ ~clash
  /\ lastOp.op = "batch" /\ lastOp.ok
  /\ Len(accounts) = 2
  /\ \E i \in DOMAIN accounts : accounts[i].balance # opening[accounts[i].id]

\* C3 as claimed, on runs where every input is one the forms offer: deleting
\* a transaction takes its amount from the account that received it, if that
\* account is still there, and from no other account.
C3_DeleteDebitsCredited ==
  [][(DeleteTx /\ ~offForm') =>
       \A t \in DOMAIN credited \ DOMAIN credited' :
         credited[t] # 0 =>
           \A i \in DOMAIN accounts :
             accounts'[i].balance =
               accounts[i].balance -
                 (IF accounts[i].id = credited[t]
                  THEN transactions[FindTx(transactions, t)].amount ELSE 0)]_vars

\* C4: a batch run that follows a batch run on the same date, the clock
\* showing that date at every read of both, adds nothing and leaves the
\* transaction list and the accounts as they were.
C4_SecondRunNoop ==
  [][(Batch /\ lastOp.op = "batch" /\ lastOp.date = today /\ today' = today) =>
       /\ lastOp'.added = 0
       /\ transactions' = transactions
       /\ accounts' = accounts]_vars

\* C4 witness: the second of two runs on one date has skipped what the first
\* generated
C4_Witness ==
  /\ lastOp.op = "batch" /\ lastOp.again
  /\ lastOp.skipped_dup > 0
  /\ \E t \in DOMAIN credited : credited[t] # 0

\* ------------------------------------------------- reading a batch step
\* what template i generates in the month of the run
Gen(i) == Generated(fixed_costs[i], today[1], today[2])

\* template i is due on the day the run reads at line 183
Due(i) == Get(fixed_costs[i], "day", 1) <= today'[3]

\* the batch finds an account for template i (line 227)
HasAccount(i) == Gen(i).account \in NamesOf(accounts)

\* template i is the first of the list to generate what it generates
FirstOfItsKind(i) == \A k \in DOMAIN fixed_costs : k < i => Gen(k) # Gen(i)

\* the transactions a step has appended
NewTx == {i \in DOMAIN transactions' :
            transactions'[i].id \notin IdsOf(transactions)}

RECURSIVE SumBalances(_)
SumBalances(accs) ==
  IF accs = <<>> THEN 0 ELSE Head(accs).balance + SumBalances(Tail(accs))

IsGen(t, g) ==
  /\ t.date = g.date /\ t.account = g.account
  /\ t.amount = g.amount /\ t.memo = g.memo

\* some account's name, stripped, is the stripped account of template i
HasAccountStripped(i) ==
  \E k \in DOMAIN accounts : Strip(accounts[k].name) = Gen(i).account

\* how many of the transactions txs are what template i generates this month
MatchesIn(txs, i) ==
  Cardinality({k \in DOMAIN txs : SameTx(txs[k], Gen(i))})

\* C5 as claimed: over batch runs on non-decreasing dates of one month, with
\* accounts and templates fixed and no other edits, a run leaves no template
\* with a second transaction for the month, and a template that is due at the
\* run and whose account is on the list has its transaction after the run.
C5_ExactlyOnce ==
  [][Batch =>
       \A i \in DOMAIN fixed_costs :
         /\ MatchesIn(transactions', i) <=
              (IF MatchesIn(transactions, i) = 0 THEN 1
               ELSE MatchesIn(transactions, i))
         /\ (Due(i) /\ HasAccountStripped(i)) =>
              MatchesIn(transactions', i) >= 1]_vars

\* what holds of C5: the same for a template whose account the batch finds
\* by its own lookup (line 227)
C5_ExactlyOnceByLookup ==
  [][Batch =>
       \A i \in DOMAIN fixed_costs :
         /\ MatchesIn(transactions', i) <=
              (IF MatchesIn(transactions, i) = 0 THEN 1
               ELSE MatchesIn(transactions, i))
         /\ (Due(i) /\ HasAccount(i)) =>
              MatchesIn(transactions', i) = 1]_vars

\* C6 as claimed: in a batch run a template whose day is after today's is
\* classified skipped_future, and such templates generate nothing: every
\* transaction the run appends is that of a due template classified added,
\* and a run in which no template is due changes neither list; a due template
\* that has no duplicate and whose account is on the list is classified
\* added.
C6_DueGate ==
  [][Batch =>
       /\ \A i \in DOMAIN fixed_costs :
            /\ ~Due(i) => lastOp'.cls[i] = "skipped_future"
            /\ (/\ Due(i)
                /\ ~IsDup(transactions, Gen(i))
                /\ FirstOfItsKind(i)
                /\ HasAccountStripped(i)) => lastOp'.cls[i] = "added"
       /\ \A n \in NewTx :
            \E i \in DOMAIN fixed_costs :
              /\ Due(i) /\ lastOp'.cls[i] = "added"
              /\ IsGen(transactions'[n], Gen(i))
       /\ (\A i \in DOMAIN fixed_costs : ~Due(i)) =>
            transactions' = transactions /\ accounts' = accounts]_vars

\* what holds of C6: the same for a template whose account the batch finds
\* by its own lookup (line 227)
C6_DueGateByLookup ==
  [][Batch =>
       /\ \A i \in DOMAIN fixed_costs :
            /\ ~Due(i) => lastOp'.cls[i] = "skipped_future"
            /\ (/\ Due(i)
                /\ ~IsDup(transactions, Gen(i))
                /\ FirstOfItsKind(i)
                /\ HasAccount(i)) => lastOp'.cls[i] = "added"
       /\ \A n \in NewTx :
            \E i \in DOMAIN fixed_costs :
              /\ Due(i) /\ lastOp'.cls[i] = "added"
              /\ IsGen(transactions'[n], Gen(i))
       /\ (\A i \in DOMAIN fixed_costs : ~Due(i)) =>
            transactions' = transactions /\ accounts' = accounts]_vars

\* C7 as claimed, on runs where every input is one the forms offer: a due
\* template whose account the batch does not find is classified
\* skipped_no_account.
C7_MissingAccountClass ==
  [][(Batch /\ ~offForm') =>
       \A i \in DOMAIN fixed_costs :
         (Due(i) /\ ~HasAccount(i)) =>
           lastOp'.cls[i] = "skipped_no_account"]_vars

\* C7 amended: a due template that repeats no recorded transaction and whose
\* account the batch does not find is classified skipped_no_account and
\* leaves no transaction behind, and a run that adds nothing changes neither
\* list; add_transaction with an account name that no account has appends the
\* transaction and changes no account.
C7_MissingAccount ==
  [][/\ Batch =>
          /\ \A i \in DOMAIN fixed_costs :
               (Due(i) /\ ~HasAccount(i) /\ ~IsDup(transactions, Gen(i))) =>
                 /\ lastOp'.cls[i] = "skipped_no_account"
                 /\ ~IsDup(transactions', Gen(i))
          /\ lastOp'.added = 0 =>
               transactions' = transactions /\ accounts' = accounts
     /\ AddTx =>
          \A n \in NewTx :
            transactions'[n].account \notin NamesOf(accounts) =>
              /\ accounts' = accounts
              /\ Len(transactions') = Len(transactions) + 1]_vars

\* C7 witness: the batch has refused a template for want of its account while
\* a transaction entered by hand under a name no account has is on record
C7_Witness ==
  /\ lastOp.op = "batch"
  /\ lastOp.skipped_no_account > 0
  /\ lastOp.added = 0
  /\ \E i \in DOMAIN transactions :
       /\ transactions[i].account \notin NamesOf(accounts)
       /\ credited[transactions[i].id] = 0

\* C8 as claimed, on runs where every input is one the forms offer: of two
\* due templates that generate the same transaction, none of which is on
\* record, the first of the list is added and the second is skipped_dup.
C8_FirstOfTwo ==
  [][(Batch /\ ~offForm') =>
       \A i, j \in DOMAIN fixed_costs :
         (/\ i < j /\ Due(i) /\ Gen(i) = Gen(j)
          /\ FirstOfItsKind(i)
          /\ ~IsDup(transactions, Gen(i))) =>
           /\ lastOp'.cls[i] = "added"
           /\ lastOp'.cls[j] = "skipped_dup"]_vars

\* C8 amended: the same when the batch finds the templates' account; then one
\* transaction of that kind is on record after the run, and the balances
\* move by the amounts of the transactions appended.
C8_FirstOfTwoWithAccount ==
  [][Batch =>
       /\ \A i, j \in DOMAIN fixed_costs :
            (/\ i < j /\ Due(i) /\ Gen(i) = Gen(j)
             /\ FirstOfItsKind(i)
             /\ ~IsDup(transactions, Gen(i))
             /\ HasAccount(i)) =>
              /\ lastOp'.cls[i] = "added"
              /\ lastOp'.cls[j] = "skipped_dup"
              /\ Cardinality({n \in DOMAIN transactions' :
                                SameTx(transactions'[n], Gen(i))}) = 1
       /\ SumBalances(accounts') - SumBalances(accounts) =
            SumAmounts([n \in 1..Cardinality(NewTx) |->
              transactions'[CHOOSE m \in NewTx :
                 Cardinality({q \in NewTx : q < m}) = n - 1]])]_vars

\* C8 witness: one run has added the first of two like templates and skipped
\* the second
C8_Witness ==
  /\ lastOp.op = "batch"
  /\ Len(fixed_costs) = 2
  /\ lastOp.cls = <<"added", "skipped_dup">>
  /\ ~lastOp.again
  /\ Len(transactions) = 1

\* C9 as claimed, on runs where every input is one the forms offer: whenever
\* a handler moves a balance, the account is the first of the list with its
\* name.
C9_FirstMatchEverywhere ==
  [][(/\ ~offForm'
      /\ [i \in DOMAIN accounts |-> accounts[i].id] =
         [i \in DOMAIN accounts' |-> accounts'[i].id]) =>
       \A i \in DOMAIN accounts :
         accounts'[i].balance # accounts[i].balance =>
           i = FirstByName(accounts, accounts[i].name)]_vars

\* the order of the policy: parsed dates ascending, unparsable dates after
\* all others, equal dates by ascending id
InPolicyOrder(txs) ==
  \A i, j \in DOMAIN txs :
    i < j =>
      LET a == parse_date_safe(txs[i].date)
          b == parse_date_safe(txs[j].date)
      IN  /\ a = None => b = None
          /\ (a # None /\ b # None) => ~DateLess(b, a)
          /\ a = b => txs[i].id <= txs[j].id

\* the handler that ran last wrote transactions.json
WroteTx ==
  \/ lastOp.op = "load" /\ lastOp.ok
  \/ lastOp.op \in {"add_tx", "batch"}
  \/ lastOp.op = "delete_tx" /\ lastOp.ok

\* C10 as claimed: the list in memory is in policy order after load and after
\* every mutation, sorting it again changes nothing, and transactions.json is
\* in policy order whenever the script has just written it.
C10_PolicyOrderOnly ==
  pc = "ready" =>
    /\ InPolicyOrder(transactions)
    /\ sort_transactions_inplace(transactions) = transactions
    /\ WroteTx => InPolicyOrder(fileTx)

\* the part of C10 that is about the list in memory
C10_MemoryInPolicyOrder ==
  pc = "ready" =>
    /\ InPolicyOrder(transactions)
    /\ sort_transactions_inplace(transactions) = transactions

\* ------------------------------------------------- saves that raise (C11)
\* save_json raises when write_text fails.  A handler that saves two files
\* may see its first save raise (at = 1: the second file is not touched) or
\* its second (at = 2: the first file is written, the second is not).  The
\* exception ends the run of the script; the lists in memory are what the
\* handler made of them, and the next run starts from the files.
SaveRaisesAt == {1, 2}

\* line 26: write_text raises before it has opened the file ("refused": the
\* file is as it was) or after it has opened and emptied it ("cut": the file
\* holds the beginning of the new text or nothing, neither of which parses)
SaveRaisesHow == {"refused", "cut"}

\* what load_json will find in a file whose save has raised
Unwritten(how, file) == IF how = "cut" THEN <<>> ELSE file

\* the files that do not parse after the saves of `saved` have returned and
\* the save of `name` has raised
CutAfter(how, saved, name) ==
  (cutShort \ saved) \cup (IF how = "cut" THEN {name} ELSE {})

\* lines 103-106 with a save that raises: the three files are saved in the
\* order accounts, transactions, templates, and line 109 is not reached
LoadRaisesAt == {1, 2, 3}

LoadRaises ==
  /\ pc = "boot"
  /\ Step
  /\ \E aid \in IdFill(AccountIds, LoadedAccounts),
        tid \in IdFill(TxIds, LoadedTx),
        fid \in IdFill(TemplateIds, LoadedFixed),
        reads \in ClockReads(today, LoadedTx), at \in LoadRaisesAt,
        how \in SaveRaisesHow :
       LET r == ensure_ids(LoadedAccounts, LoadedTx, LoadedFixed,
                           [i \in DOMAIN LoadedAccounts |-> At(aid, i)],
                           [i \in DOMAIN LoadedTx |-> At(tid, i)],
                           [i \in DOMAIN LoadedFixed |-> At(fid, i)],
                           [i \in DOMAIN LoadedTx |-> ReadStr(reads, i)])
       IN  /\ r.changed
           /\ today' = LastRead(today, reads)
           /\ accounts' = r.accounts
           /\ fixed_costs' = r.fixed_costs
           /\ transactions' = r.transactions
           /\ fileAccounts' = IF at >= 2 THEN r.accounts
                              ELSE Unwritten(how, fileAccounts)
           /\ fileTx' = IF at >= 3 THEN r.transactions
                        ELSE IF at = 2 THEN Unwritten(how, fileTx) ELSE fileTx
           /\ fileFixed' = IF at = 3 THEN Unwritten(how, fileFixed)
                           ELSE fileFixed
           /\ cutShort' =
                CASE at = 1 -> CutAfter(how, {}, "accounts")
                  [] at = 2 -> CutAfter(how, {"accounts"}, "transactions")
                  [] at = 3 -> CutAfter(how, {"accounts", "transactions"},
                                        "fixed_costs")
           /\ lastOp' = [op |-> "load", ok |-> FALSE, raised |-> at,
                         how |-> how]
  /\ pc' = "boot"
  /\ UNCHANGED <<opening, credited, clash, offForm>>

\* lines 324-343 with a save that raises: accounts.json is saved first
AddTxRaises ==
  /\ pc = "ready"
  /\ Step
  /\ Len(accounts) > 0
  /\ Len(transactions) < MaxTx
  /\ \E d \in TxDateInputs, acc_name \in AccountRefInputs,
        amount \in AmountInputs, memo \in MemoInputs,
        id \in new_id(TxIds, transactions), at \in SaveRaisesAt,
        how \in SaveRaisesHow :
       LET r == add_tx(accounts, transactions, id, d, acc_name, amount, memo)
           i == FirstByName(accounts, acc_name)
       IN  /\ BalancesOk(r.accounts)
           /\ accounts' = r.accounts
           /\ transactions' = r.transactions
           /\ fileAccounts' = IF at = 2 THEN r.accounts
                              ELSE Unwritten(how, fileAccounts)
           /\ fileTx' = IF at = 2 THEN Unwritten(how, fileTx) ELSE fileTx
           /\ cutShort' = IF at = 1 THEN CutAfter(how, {}, "accounts")
                          ELSE CutAfter(how, {"accounts"}, "transactions")
           /\ credited' = [t \in DOMAIN credited \cup {id} |->
                             IF t # id THEN credited[t]
                             ELSE IF i = 0 THEN 0 ELSE accounts[i].id]
           /\ offForm' = (offForm \/ acc_name \notin NamesOf(accounts))
           /\ lastOp' = [op |-> "add_tx", ok |-> FALSE, raised |-> at,
                         how |-> how]
  /\ pc' = "boot"
  /\ UNCHANGED <<today, fixed_costs, fileFixed, opening, clash>>

\* lines 377-388 with a save that raises: accounts.json is saved first
DeleteTxRaises ==
  /\ pc = "ready"
  /\ Step
  /\ \E tx_id \in IdsOf(transactions), at \in SaveRaisesAt,
        how \in SaveRaisesHow :
       LET k == FindTx(transactions, tx_id)
           r == delete_tx(accounts, transactions, k)
       IN  /\ BalancesOk(r.accounts)
           /\ accounts' = r.accounts
           /\ transactions' = r.transactions
           /\ fileAccounts' = IF at = 2 THEN r.accounts
                              ELSE Unwritten(how, fileAccounts)
           /\ fileTx' = IF at = 2 THEN Unwritten(how, fileTx) ELSE fileTx
           /\ cutShort' = IF at = 1 THEN CutAfter(how, {}, "accounts")
                          ELSE CutAfter(how, {"accounts"}, "transactions")
           /\ credited' = Restrict(credited, DOMAIN credited \ {tx_id})
           /\ lastOp' = [op |-> "delete_tx", ok |-> FALSE, raised |-> at,
                         how |-> how]
  /\ pc' = "boot"
  /\ UNCHANGED <<today, fixed_costs, fileFixed, opening, clash, offForm>>

\* lines 245-247 with a save that raises: transactions.json is saved first
BatchRaises ==
  /\ pc = "ready"
  /\ Step
  /\ fixed_costs # <<>>
  /\ \E ids \in IdOrders(TxIds, transactions), at \in SaveRaisesAt,
        how \in SaveRaisesHow,
        at183 \in NotBefore(today) :
       LET now == BatchNow(today, at183)
           r == run_batch(accounts, transactions, fixed_costs, ids, now)
       IN  /\ ~r.full
           /\ today' = at183
           /\ BalancesOk(r.accounts)
           /\ accounts' = r.accounts
           /\ transactions' = r.transactions
           /\ fileTx' = IF at = 2 THEN r.transactions
                        ELSE Unwritten(how, fileTx)
           /\ fileAccounts' = IF at = 2 THEN Unwritten(how, fileAccounts)
                              ELSE fileAccounts
           /\ cutShort' = IF at = 1 THEN CutAfter(how, {}, "transactions")
                          ELSE CutAfter(how, {"transactions"}, "accounts")
           /\ credited' = [t \in DOMAIN credited \cup {c[1] : c \in r.credits} |->
                             IF t \in DOMAIN credited THEN credited[t]
                             ELSE (CHOOSE c \in r.credits : c[1] = t)[2]]
           /\ lastOp' = [op |-> "batch", ok |-> FALSE, raised |-> at,
                         how |-> how, date |-> now, added |-> r.added]
  /\ pc' = "boot"
  /\ UNCHANGED <<fixed_costs, fileFixed, opening, clash, offForm>>

\* a session in which saves may raise, on lists that are in the files or on
\* files the script has yet to read; after a save has raised the script runs
\* again from the files
InitIO ==
  \/ \E i \in DOMAIN AnyLedgers, j \in DOMAIN TemplateLists,
        k \in DOMAIN TxLists :
       StartOn(AnyLedgers[i], TxLists[k], TemplateLists[j])
  \/ Init

NextIO ==
  \/ Load
  \/ LoadRaises
  \/ AddTx
  \/ DeleteTx
  \/ Batch
  \/ AddTxRaises
  \/ DeleteTxRaises
  \/ BatchRaises

SpecIO == InitIO /\ [][NextIO]_vars

\* C11 as claimed, on runs where every input is one the forms offer: when a
\* save raises in add_transaction, delete_transaction or the batch, the two
\* files are both as they were before the handler or both as the handler
\* leaves the lists, and the lists in memory are what the files hold.
C11_AllOrNothing ==
  [][((AddTxRaises \/ DeleteTxRaises \/ BatchRaises) /\ ~offForm') =>
       /\ \/ /\ fileAccounts' = fileAccounts /\ fileTx' = fileTx
             /\ cutShort' = cutShort
          \/ /\ fileAccounts' = accounts' /\ fileTx' = transactions'
             /\ cutShort' \cap {"accounts", "transactions"} = {}
       /\ accounts' = fileAccounts'
       /\ transactions' = fileTx']_vars

\* the three lists in memory and the three files
Collections ==
  <<accounts, transactions, fixed_costs, fileAccounts, fileTx, fileFixed,
    cutShort>>

\* C14: delete_account with an id some account has removes that account and
\* no other, keeps the order and the balances of the others, and leaves the
\* transactions and the templates as they were, those that carry the deleted
\* account's name included.
C14_DeleteAccountFrame ==
  [][(DeleteAccount /\ lastOp'.ok) =>
       /\ \E k \in DOMAIN accounts :
            /\ accounts' = SubSeq(accounts, 1, k - 1) \o
                           SubSeq(accounts, k + 1, Len(accounts))
            /\ accounts[k].id \notin IdsOf(accounts')
            /\ TxOfName(transactions', accounts[k].name) =
               TxOfName(transactions, accounts[k].name)
       /\ fileAccounts' = accounts'
       /\ UNCHANGED <<transactions, fixed_costs, fileTx, fileFixed>>]_vars

\* C14 witness: an account has been deleted, another is left, and a
\* transaction under a name that no account has any more is on record
C14_Witness ==
  /\ lastOp.op = "delete_account" /\ lastOp.ok
  /\ accounts # <<>>
  /\ \E i \in DOMAIN transactions :
       transactions[i].account \notin NamesOf(accounts)

C13_RefusedMutatesNothing ==
  [][/\ ((AddAccount \/ AddFixed) /\ ~lastOp'.ok) => UNCHANGED Collections
     /\ (AddFixed /\ (Strip(lastOp'.name) = <<>> \/ Len(accounts) = 0)) =>
          ~lastOp'.ok
     /\ (AddAccount /\ lastOp'.ok) =>
          Strip(accounts'[Len(accounts')].name) # <<>>
     /\ (AddFixed /\ lastOp'.ok) =>
          Strip(fixed_costs'[Len(fixed_costs')].name) # <<>>]_vars

\* ------------------------------------------------------- the metrics (C15)
\* str(t.get("date", "")).startswith(month_prefix), month_prefix = "YYYY-MM"
StartsWith(d, y, m) == d.y = y /\ d.m = m

\* line 257
RECURSIVE total_balance(_)
total_balance(accs) ==
  IF accs = <<>> THEN 0
  ELSE Get(Head(accs), "balance", 0) + total_balance(Tail(accs))

\* lines 260-261
RECURSIVE month_income(_, _, _)
month_income(txs, y, m) ==
  IF txs = <<>> THEN 0
  ELSE (IF /\ StartsWith(Get(Head(txs), "date", DateStr(0, 0, 0)), y, m)
           /\ Get(Head(txs), "amount", 0) > 0
        THEN Get(Head(txs), "amount", 0) ELSE 0)
       + month_income(Tail(txs), y, m)

\* the sum of lines 262-263, before it is negated
RECURSIVE NegativeSum(_, _, _)
NegativeSum(txs, y, m) ==
  IF txs = <<>> THEN 0
  ELSE (IF /\ StartsWith(Get(Head(txs), "date", DateStr(0, 0, 0)), y, m)
           /\ Get(Head(txs), "amount", 0) < 0
        THEN Get(Head(txs), "amount", 0) ELSE 0)
       + NegativeSum(Tail(txs), y, m)

\* mutant: the sum is not negated
month_expense_NotNegated(txs, y, m) == NegativeSum(txs, y, m)

\* lines 262-263
month_expense(txs, y, m) == 0 - NegativeSum(txs, y, m)

\* lines 257-268: a run of the script in which no button is pressed computes
\* the three metrics and shows them
Report ==
  /\ pc = "ready"
  /\ Step
  /\ lastOp' = [op |-> "report", ok |-> TRUE,
                total_balance |-> total_balance(accounts),
                month_income |-> month_income(transactions, today[1], today[2]),
                month_expense |-> month_expense(transactions, today[1], today[2])]
  /\ UNCHANGED <<pc, today, accounts, transactions, fixed_costs, fileAccounts,
                 fileTx, fileFixed, opening, credited, clash, offForm,
                 cutShort>>

\* transactions on record when the metrics are first shown: of this month and
\* of the month before, with a date that is no calendar date, with a date
\* that has a tail, and with amount zero
ReportTxLists ==
  <<
    <<>>,
    << [id |-> 1, date |-> DateStr(2024, 1, 20), account |-> <<"A">>,
        amount |-> 3, memo |-> <<>>],
       [id |-> 2, date |-> DateStr(2024, 2, 10), account |-> <<"A">>,
        amount |-> -2, memo |-> <<>>] >>,
    << [id |-> 1, date |-> [DateStr(2024, 2, 28) EXCEPT !.tail = "T09"],
        account |-> <<"A">>, amount |-> -2, memo |-> <<>>],
       [id |-> 2, date |-> DateStr(2024, 2, 30), account |-> <<"B">>,
        amount |-> 3, memo |-> <<>>] >>,
    << [id |-> 2, date |-> DateStr(2024, 1, 31), account |-> <<"B">>,
        amount |-> -2, memo |-> <<>>] >>,
    << [id |-> 1, date |-> DateStr(2024, 2, 3), account |-> <<"A">>,
        amount |-> 0, memo |-> <<>>] >>
  >>

InitReport ==
  \E i \in DOMAIN AnyLedgers, k \in DOMAIN ReportTxLists :
    StartOn(AnyLedgers[i], ReportTxLists[k], <<>>)

NextReport ==
  \/ AddTx
  \/ DeleteTx
  \/ Tick
  \/ Report

SpecReport == InitReport /\ [][NextReport]_vars

\* the sum of f over the finite set S
RECURSIVE SumOver(_, _)
SumOver(S, f) ==
  IF S = {} THEN 0
  ELSE LET x == CHOOSE x \in S : TRUE IN f[x] + SumOver(S \ {x}, f)

\* the year-months asked about
Periods == {<<2024, 1>>, <<2024, 2>>, <<2023, 2>>}

\* the transactions whose date string starts with the period's prefix
InPeriod(p) ==
  {i \in DOMAIN transactions :
     transactions[i].date.y = p[1] /\ transactions[i].date.m = p[2]}

\* the sum of all account balances
BalanceSum ==
  SumOver(DOMAIN accounts, [i \in DOMAIN accounts |-> accounts[i].balance])

\* the sum of the positive amounts of the period
IncomeOf(p) ==
  SumOver({i \in InPeriod(p) : transactions[i].amount > 0},
          [i \in DOMAIN transactions |-> transactions[i].amount])

\* the negated sum of the negative amounts of the period
ExpenseOf(p) ==
  0 - SumOver({i \in InPeriod(p) : transactions[i].amount < 0},
              [i \in DOMAIN transactions |-> transactions[i].amount])

\* C15: in every state total_balance is the sum of the account balances, and
\* for every period the income is the sum of the positive amounts of the
\* transactions whose date string starts with the prefix, the expense is the
\* negated sum of their negative amounts and is not negative; showing the
\* metrics reports these values for the current month and changes neither
\* the lists nor the files.
C15_Metrics ==
  [][/\ total_balance(accounts) = BalanceSum
     /\ \A p \in Periods :
          /\ month_income(transactions, p[1], p[2]) = IncomeOf(p)
          /\ month_expense(transactions, p[1], p[2]) = ExpenseOf(p)
          /\ month_expense(transactions, p[1], p[2]) >= 0
     /\ Report =>
          /\ UNCHANGED Collections
          /\ lastOp'.total_balance = BalanceSum
          /\ lastOp'.month_income = IncomeOf(<<today[1], today[2]>>)
          /\ lastOp'.month_expense = ExpenseOf(<<today[1], today[2]>>)
          /\ lastOp'.month_expense >= 0]_vars

\* C15 witness: the metrics have been shown with an expense of the month
\* while a transaction of another month was on record and left out
C15_Witness ==
  /\ lastOp.op = "report"
  /\ lastOp.month_expense > 0
  /\ lastOp.total_balance # 0
  /\ \E i \in DOMAIN transactions :
       /\ transactions[i].amount > 0
       /\ ~StartsWith(transactions[i].date, today[1], today[2])
  /\ lastOp.month_income = 0

\* C16 as claimed, on runs where every input is one the forms offer: in a
\* batch run a due template that repeats no recorded transaction and no
\* earlier template of the run is added if and only if some account's name
\* with the surrounding blanks removed is the template's account with the
\* surrounding blanks removed.
C16_StrippedOnBothSides ==
  [][(Batch /\ ~offForm') =>
       \A i \in DOMAIN fixed_costs :
         (/\ Due(i)
          /\ ~IsDup(transactions, Gen(i))
          /\ FirstOfItsKind(i)) =>
           (lastOp'.cls[i] = "added" <=> HasAccountStripped(i))]_vars

\* how many templates a run has put in class c
CountOf(cls, c) == Cardinality({i \in DOMAIN cls : cls[i] = c})

\* C17: a batch run puts every template in one class, that of the first check
\* that applies in the order not yet due, duplicate, account missing, else
\* added; the four counts are the sizes of the classes and add up to the
\* number of templates, the list of transactions grows by the count added,
\* and a due template that repeats a recorded transaction is skipped_dup
\* whether or not the batch finds its account.
C17_ClassifiedOnceInOrder ==
  [][Batch =>
       /\ Len(lastOp'.cls) = Len(fixed_costs)
       /\ lastOp'.added = CountOf(lastOp'.cls, "added")
       /\ lastOp'.skipped_future = CountOf(lastOp'.cls, "skipped_future")
       /\ lastOp'.skipped_dup = CountOf(lastOp'.cls, "skipped_dup")
       /\ lastOp'.skipped_no_account =
            CountOf(lastOp'.cls, "skipped_no_account")
       /\ lastOp'.added + lastOp'.skipped_future + lastOp'.skipped_dup
            + lastOp'.skipped_no_account = Len(fixed_costs)
       /\ Len(transactions') = Len(transactions) + lastOp'.added
       /\ \A i \in DOMAIN fixed_costs :
            lastOp'.cls[i] =
              IF ~Due(i) THEN "skipped_future"
              ELSE IF \/ IsDup(transactions, Gen(i))
                      \/ \E k \in DOMAIN fixed_costs :
                           /\ k < i /\ Gen(k) = Gen(i)
                           /\ lastOp'.cls[k] = "added"
                   THEN "skipped_dup"
              ELSE IF ~HasAccount(i) THEN "skipped_no_account"
              ELSE "added"]_vars

\* C17 witness: a run has skipped as a duplicate a due template whose account
\* no account of the list has
C17_Witness ==
  /\ lastOp.op = "batch"
  /\ \E i \in DOMAIN fixed_costs :
       /\ lastOp.cls[i] = "skipped_dup"
       /\ Strip(fixed_costs[i].account) \notin NamesOf(accounts)
       /\ \A k \in DOMAIN accounts :
            Strip(accounts[k].name) # Strip(fixed_costs[i].account)

\* ------------------------------------------------ ends of months (C18)
\* the days of the month a template may carry, as the form offers them
\* (line 133: 1..31)
LateDays == {1, 28, 29, 30, 31}

\* one or two templates on account A, with days of LateDays
LateTemplates ==
  {<< [id |-> 1, name |-> <<"R">>, account |-> <<"A">>, amount |-> -2,
       memo |-> <<>>, day |-> d] >> : d \in LateDays}
  \cup
  {<< [id |-> 1, name |-> <<"R">>, account |-> <<"A">>, amount |-> -2,
       memo |-> <<>>, day |-> d],
      [id |-> 2, name |-> <<"S">>, account |-> <<"A">>, amount |-> 3,
       memo |-> <<>>, day |-> e] >> : d, e \in LateDays}

\* a session that starts on one of these days with account A, no transaction
\* and the given templates
InitDates ==
  /\ pc = "ready"
  /\ today \in MonthDays
  /\ accounts = DistinctLedgers[1]
  /\ transactions = <<>>
  /\ fixed_costs \in LateTemplates
  /\ fileAccounts = accounts
  /\ fileTx = transactions
  /\ fileFixed = fixed_costs
  /\ lastOp = [op |-> "none", ok |-> FALSE]
  /\ opening = OpeningAtLoad(accounts, transactions)
  /\ credited = <<>>
  /\ clash = FALSE
  /\ offForm = FALSE
  /\ cutShort = {}
  /\ steps = 0

NextDates ==
  \/ Batch
  \/ DeleteTx
  \/ DeleteFixed

SpecDates == InitDates /\ [][NextDates]_vars

\* a transaction the run appends carries a calendar date of the month read
\* at line 182 that is not after the day the clock shows when the run ends
DatesAreReal ==
  \A n \in NewTx :
    LET d == parse_date_safe(transactions'[n].date)
    IN  /\ d # None
        /\ transactions'[n].date.tail = ""
        /\ d[1] = today[1] /\ d[2] = today[2]
        /\ ~DateLess(today', d)

\* C18 as claimed: with template days in 1..31, every transaction a batch
\* run appends carries a date that is a calendar date, of the current month,
\* and not after the current date.
C18_GeneratedDatesAreReal == [][Batch => DatesAreReal]_vars

\* the same for the runs in which both reads of the clock give one day
C18_RealWhenClockStands ==
  [][(Batch /\ today' = today) => DatesAreReal]_vars

\* --------------------------------------------- files of any age (C19)
\* one record of each kind with every field, and the same record with any of
\* its fields left out (of a template: any of id, day, memo, name)
FullAccount == [id |-> 1, name |-> <<"A", WS>>, balance |-> 5]

FullTx ==
  [id |-> 1, date |-> DateStr(2024, 2, 30), account |-> <<"A", WS>>,
   amount |-> -2, memo |-> <<"x", WS>>]

FullFixed ==
  [id |-> 1, name |-> <<"R">>, account |-> <<"A">>, amount |-> -2,
   memo |-> <<"m", WS>>, day |-> 28]

LegacyAccounts == {Restrict(FullAccount, S) : S \in SUBSET DOMAIN FullAccount}

LegacyTx == {Restrict(FullTx, S) : S \in SUBSET DOMAIN FullTx}

LegacyFixed ==
  {Restrict(FullFixed, {"account", "amount"} \cup S) :
     S \in SUBSET {"id", "day", "memo", "name"}}

\* two transactions without date
TwoDateless ==
  << [id |-> 1, account |-> <<"A", WS>>, amount |-> 3, memo |-> <<>>],
     [id |-> 2, account |-> <<"A", WS>>, amount |-> -2, memo |-> <<>>] >>

\* the script is about to run on files that hold one record of each kind, or
\* the two transactions without date
InitNormalize ==
  /\ pc = "boot"
  /\ today \in {Clock[i] : i \in DOMAIN Clock}
  /\ accounts = <<>>
  /\ transactions = <<>>
  /\ fixed_costs = <<>>
  /\ fileAccounts \in {<<a>> : a \in LegacyAccounts}
  /\ fileTx \in {<<t>> : t \in LegacyTx} \cup {TwoDateless}
  /\ fileFixed \in {<<fc>> : fc \in LegacyFixed}
  /\ lastOp = [op |-> "none", ok |-> FALSE]
  /\ opening = <<>>
  /\ credited = <<>>
  /\ clash = FALSE
  /\ offForm = FALSE
  /\ cutShort = {}
  /\ steps = 0

\* the script runs again from its first line: the lists are read from the
\* files once more (every handler ends in st.rerun())
Restart ==
  /\ pc = "ready"
  /\ Step
  /\ pc' = "boot"
  /\ lastOp' = [op |-> "restart", ok |-> lastOp.ok]
  /\ UNCHANGED <<today, accounts, transactions, fixed_costs, fileAccounts,
                 fileTx, fileFixed, opening, credited, clash, offForm,
                 cutShort>>

NextNormalize ==
  \/ Load
  \/ Restart

SpecNormalize == InitNormalize /\ [][NextNormalize]_vars

\* some record of the list lacks one of the fields
LacksField(recs, fields) ==
  \E i \in DOMAIN recs : \E k \in fields : k \notin DOMAIN recs[i]

\* every field a record of the first list has is the same in the record at
\* the same place of the second
KeepsFields(before, after) ==
  /\ Len(after) = Len(before)
  /\ \A i \in DOMAIN before :
       \A k \in DOMAIN before[i] :
         k \in DOMAIN after[i] /\ after[i][k] = before[i][k]

\* C19: when the files are read, ensure_ids returns true exactly if some
\* account lacks id, balance or name, some transaction lacks id, date,
\* account, amount or memo, or some template lacks id, day or memo; no field
\* that a record has is altered; ensure_ids applied to the lists it has
\* completed returns false and leaves them as they are, and so does the next
\* run of the script.
C19_ChangedIffDefaulted ==
  [][Load =>
       /\ lastOp'.ok <=>
            \/ LacksField(fileAccounts, {"id", "balance", "name"})
            \/ LacksField(fileTx, {"id", "date", "account", "amount", "memo"})
            \/ LacksField(fileFixed, {"id", "day", "memo"})
       /\ KeepsFields(fileAccounts, accounts')
       /\ KeepsFields(fileTx, transactions')
       /\ KeepsFields(fileFixed, fixed_costs')
       /\ KeepsFields(fileAccounts, fileAccounts')
       /\ KeepsFields(fileTx, fileTx')
       /\ KeepsFields(fileFixed, fileFixed')
       /\ LET again == ensure_ids(accounts', transactions', fixed_costs',
                         [i \in DOMAIN accounts' |-> 0],
                         [i \in DOMAIN transactions' |-> 0],
                         [i \in DOMAIN fixed_costs' |-> 0],
                         [i \in DOMAIN transactions' |->
                            DateStr(today'[1], today'[2], today'[3])])
          IN  /\ ~again.changed
              /\ again.accounts = accounts'
              /\ again.transactions = transactions'
              /\ again.fixed_costs = fixed_costs'
       /\ lastOp.op = "restart" =>
            /\ ~lastOp'.ok
            /\ accounts' = accounts
            /\ transactions' = transactions
            /\ fixed_costs' = fixed_costs
            /\ UNCHANGED <<fileAccounts, fileTx, fileFixed>>]_vars

\* C19 witness: the script has run a second time on files that its first run
\* completed and saved, a transaction without id and a template without day
\* among them, and a memo that was there is still there
C19_Witness ==
  /\ pc = "ready"
  /\ steps = 3
  /\ lastOp.op = "load" /\ ~lastOp.ok
  /\ fileAccounts = accounts /\ fileTx = transactions
  /\ fixed_costs[1].day = 1
  /\ transactions[1].id = 2
  /\ transactions[1].memo = <<"x", WS>>

====
